---- MODULE Spec2Model ----
(***************************************************************************)
(* Model of backend/source_retrieval.py (class SourceRetriever): the       *)
(* DuckDuckGo search client, the redirect-URL unwrapper, the per-URL       *)
(* article extraction loop, the context aggregation and the Gemini         *)
(* verification client, composed by search_and_process_articles.           *)
(*                                                                         *)
(* A Python str is a sequence of one-character strings (URLs) or of        *)
(* lexemes (model output, console text).  An Optional value is a record    *)
(* [isNone, v].                                                            *)
(***************************************************************************)
EXTENDS Integers, Sequences, FiniteSets, TLC

VARIABLES
    model,        \* self.model is set (a GenerativeModel) or None
    verify,       \* the verify argument of search_and_process_articles
    num_results,  \* the num_results argument
    pc,           \* position of the run
    http,         \* what requests.get / BeautifulSoup did in this run
    urls,         \* urls returned by search_articles_duckduckgo
    idx,          \* position of the for-loop over urls
    extracted,    \* per processed URL: did extract_article_info succeed
    data,         \* the list of article_info.__dict__ rows
    context,      \* the context string
    llm,          \* what self.model.generate_content did in this run
    ret,          \* what verify_claim_with_gemini returned
    attrs,        \* results_df.attrs
    console,      \* lines printed by the failure paths
    model_calls,  \* number of generate_content invocations
    uw_pc,        \* position of a stand-alone _unwrap_duckduckgo_url call
    uw_in,        \* its wrapped_url argument
    uw_out        \* its return value

vars == << model, verify, num_results, pc, http, urls, idx, extracted, data,
           context, llm, ret, attrs, console, model_calls,
           uw_pc, uw_in, uw_out >>

pipelineVars == << model, verify, num_results, pc, http, urls, idx, extracted,
                   data, context, llm, ret, attrs, console, model_calls >>

unwrapVars == << uw_pc, uw_in, uw_out >>

----------------------------------------------------------------------------
(* Bounds *)

MaxLen == 5        \* longest uddg value fed to a stand-alone unwrap call
MaxAnchors == 2    \* most result anchors on a search page
MaxN == 2          \* largest num_results

----------------------------------------------------------------------------
(* Python values *)

None == [isNone |-> TRUE, v |-> <<>>]
Some(x) == [isNone |-> FALSE, v |-> x]

Min(a, b) == IF a <= b THEN a ELSE b

Take(s, n) == SubSeq(s, 1, Min(n, Len(s)))
Drop(s, n) == SubSeq(s, n + 1, Len(s))

\* s.find(c) over the character set cs, 1-based; 0 when absent
RECURSIVE FindFirst(_, _)
FindFirst(s, cs) ==
    IF s = <<>> THEN 0
    ELSE IF Head(s) \in cs THEN 1
    ELSE LET r == FindFirst(Tail(s), cs) IN IF r = 0 THEN 0 ELSE r + 1

\* s.split(sep): the pieces between occurrences of the character sep
RECURSIVE Split(_, _)
Split(s, sep) ==
    LET i == FindFirst(s, {sep}) IN
    IF i = 0 THEN << s >>
    ELSE << SubSeq(s, 1, i - 1) >> \o Split(Drop(s, i), sep)

\* s.replace(a, b) for single characters
Replace(s, a, b) == [i \in 1..Len(s) |-> IF s[i] = a THEN b ELSE s[i]]

----------------------------------------------------------------------------
(* urllib.parse.unquote *)

HexLower == << "0", "1", "2", "3", "4", "5", "6", "7", "8", "9",
               "a", "b", "c", "d", "e", "f" >>
HexUpper == << "0", "1", "2", "3", "4", "5", "6", "7", "8", "9",
               "A", "B", "C", "D", "E", "F" >>

IsHex(c) == \E i \in 1..16 : c = HexLower[i] \/ c = HexUpper[i]
HexVal(c) == (CHOOSE i \in 1..16 : c = HexLower[i] \/ c = HexUpper[i]) - 1

Printable ==
  << " ", "!", "\"", "#", "$", "%", "&", "'", "(", ")", "*", "+",
     ",", "-", ".", "/", "0", "1", "2", "3", "4", "5", "6", "7",
     "8", "9", ":", ";", "<", "=", ">", "?", "@", "A", "B", "C",
     "D", "E", "F", "G", "H", "I", "J", "K", "L", "M", "N", "O",
     "P", "Q", "R", "S", "T", "U", "V", "W", "X", "Y", "Z", "[",
     "\\", "]", "^", "_", "<grave>", "a", "b", "c", "d", "e", "f", "g",
     "h", "i", "j", "k", "l", "m", "n", "o", "p", "q", "r", "s",
     "t", "u", "v", "w", "x", "y", "z", "{", "|", "}", "~" >>

\* the character of a byte; a byte outside printable ASCII is shown as the
\* replacement mark and the grave accent by its name (neither is produced
\* by the escapes of the model's alphabet)
Chr(n) == IF n >= 32 /\ n <= 126 THEN Printable[n - 31] ELSE "<?>"

\* one left-to-right pass: %XY with two hex digits becomes one character,
\* any other % is kept as it is
RECURSIVE unquote(_)
unquote(s) ==
    IF s = <<>> THEN <<>>
    ELSE IF Head(s) = "%" /\ Len(s) >= 3 /\ IsHex(s[2]) /\ IsHex(s[3])
         THEN << Chr(16 * HexVal(s[2]) + HexVal(s[3])) >> \o unquote(Drop(s, 3))
         ELSE << Head(s) >> \o unquote(Tail(s))

----------------------------------------------------------------------------
(* urllib.parse.urlparse, as far as the query string and its errors *)

Letters == { Printable[i] : i \in (34..59) \cup (66..91) }
SchemeChars == Letters \cup { Printable[i] : i \in 17..26 } \cup {"+", "-", "."}

\* s.split(c, 1) at position i of c (0: c is absent)
SplitAtIndex(s, i) ==
    IF i = 0 THEN [head |-> s, tail |-> <<>>]
    ELSE [head |-> SubSeq(s, 1, i - 1), tail |-> Drop(s, i)]

SplitAt(s, c) == SplitAtIndex(s, FindFirst(s, {c}))

HasScheme(url, colon) ==
    /\ colon > 1
    /\ url[1] \in Letters
    /\ \A i \in 1..(colon - 1) : url[i] \in SchemeChars

SplitScheme(url, colon) ==
    IF HasScheme(url, colon)
    THEN [scheme |-> SubSeq(url, 1, colon - 1), rest |-> Drop(url, colon)]
    ELSE [scheme |-> <<>>, rest |-> url]

\* _splitnetloc: the netloc ends before the first of / ? #
NetlocAt(after, delim) ==
    IF delim = 0 THEN [has |-> TRUE, netloc |-> after, rest |-> <<>>]
    ELSE [has |-> TRUE, netloc |-> SubSeq(after, 1, delim - 1),
          rest |-> Drop(after, delim - 1)]

SplitNetloc(rest) ==
    IF Len(rest) >= 2 /\ rest[1] = "/" /\ rest[2] = "/"
    THEN NetlocAt(Drop(rest, 2), FindFirst(Drop(rest, 2), {"/", "?", "#"}))
    ELSE [has |-> FALSE, netloc |-> <<>>, rest |-> rest]

\* ValueError("Invalid IPv6 URL"): one bracket without the other
BracketsMatch(netloc) ==
    (FindFirst(netloc, {"["}) > 0) = (FindFirst(netloc, {"]"}) > 0)

ParseResult(scheme, n, fragment, q) ==
    [ ok |-> ~n.has \/ BracketsMatch(n.netloc),
      scheme |-> scheme, netloc |-> n.netloc, path |-> q.head,
      query |-> q.tail, fragment |-> fragment ]

AfterFragment(scheme, n, f) == ParseResult(scheme, n, f.tail, SplitAt(f.head, "?"))

AfterNetloc(scheme, n) == AfterFragment(scheme, n, SplitAt(n.rest, "#"))

AfterScheme(ss) == AfterNetloc(ss.scheme, SplitNetloc(ss.rest))

\* scheme, then netloc, then fragment, then query
urlparse(url) == AfterScheme(SplitScheme(url, FindFirst(url, {":"})))

----------------------------------------------------------------------------
(* urllib.parse.parse_qs (keep_blank_values=False, strict_parsing=False) *)

\* parse_qsl: the (name, value) pairs in order, both percent-decoded
RECURSIVE parse_qsl_pairs(_)
parse_qsl_pairs(pieces) ==
    IF pieces = <<>> THEN <<>>
    ELSE LET nv == Head(pieces)
             eq == FindFirst(nv, {"="})
             name == SubSeq(nv, 1, eq - 1)
             value == Drop(nv, eq)
             more == parse_qsl_pairs(Tail(pieces))
         IN  IF nv = <<>> \/ eq = 0 \/ value = <<>> THEN more
             ELSE << << unquote(Replace(name, "+", " ")),
                        unquote(Replace(value, "+", " ")) >> >> \o more

RECURSIVE ValuesOf(_, _)
ValuesOf(pairs, name) ==
    IF pairs = <<>> THEN <<>>
    ELSE IF Head(pairs)[1] = name
         THEN << Head(pairs)[2] >> \o ValuesOf(Tail(pairs), name)
         ELSE ValuesOf(Tail(pairs), name)

parse_qs(query) ==
    LET pairs == IF query = <<>> THEN <<>> ELSE parse_qsl_pairs(Split(query, "&"))
    IN  [ name \in { pairs[i][1] : i \in 1..Len(pairs) } |-> ValuesOf(pairs, name) ]

----------------------------------------------------------------------------
(* SourceRetriever._unwrap_duckduckgo_url *)

uddg == << "u", "d", "d", "g" >>

_unwrap_duckduckgo_url(wrapped_url) ==
    LET parsed_url == urlparse(wrapped_url)
    IN  IF ~parsed_url.ok
        THEN None                                   \* except: print, return None
        ELSE LET query_params == parse_qs(parsed_url.query)
             IN  IF uddg \in DOMAIN query_params
                 THEN Some(unquote(query_params[uddg][1]))
                 ELSE Some(wrapped_url)

----------------------------------------------------------------------------
(* json.loads over the lexemes of a text *)

Lex(k, s) == [k |-> k, s |-> s]
P(s) == Lex("punct", s)       \* one of { } [ ] : ,
S(s) == Lex("str", s)         \* a double-quoted string
N(s) == Lex("num", s)         \* a number
W(s) == Lex("word", s)        \* any other run of characters
EndOfText == Lex("end", "")

At(t, i) == IF i >= 1 /\ i <= Len(t) THEN t[i] ELSE EndOfText

JNull == [t |-> "null"]
JBool(b) == [t |-> "bool", b |-> b]
JNum(n) == [t |-> "num", n |-> n]
JStr(s) == [t |-> "str", s |-> s]
JArr(items) == [t |-> "arr", items |-> items]
JObj(members) == [t |-> "obj", members |-> members]

NumVal(s) == CASE s = "0" -> 0 [] s = "1" -> 1 [] s = "2" -> 2 [] OTHER -> 9

JSONDecodeError == [ok |-> FALSE, val |-> JNull, next |-> 0]
Decoded(v, next) == [ok |-> TRUE, val |-> v, next |-> next]

RECURSIVE ParseValue(_, _)
RECURSIVE ParseElements(_, _, _)
RECURSIVE ParseMembers(_, _, _)

ParseValue(t, i) ==
    LET tok == At(t, i) IN
    CASE tok = W("null") -> Decoded(JNull, i + 1)
      [] tok = W("true") -> Decoded(JBool(TRUE), i + 1)
      [] tok = W("false") -> Decoded(JBool(FALSE), i + 1)
      [] tok.k = "num" -> Decoded(JNum(NumVal(tok.s)), i + 1)
      [] tok.k = "str" -> Decoded(JStr(tok.s), i + 1)
      [] tok = P("[") -> IF At(t, i + 1) = P("]")
                         THEN Decoded(JArr(<<>>), i + 2)
                         ELSE ParseElements(t, i + 1, <<>>)
      [] tok = P("{") -> IF At(t, i + 1) = P("}")
                         THEN Decoded(JObj(<<>>), i + 2)
                         ELSE ParseMembers(t, i + 1, <<>>)
      [] OTHER -> JSONDecodeError

ParseElements(t, i, acc) ==
    LET r == ParseValue(t, i) IN
    IF ~r.ok THEN JSONDecodeError
    ELSE IF At(t, r.next) = P(",")
         THEN ParseElements(t, r.next + 1, Append(acc, r.val))
    ELSE IF At(t, r.next) = P("]")
         THEN Decoded(JArr(Append(acc, r.val)), r.next + 1)
    ELSE JSONDecodeError

\* a later member replaces an earlier one of the same name, as in a dict
ParseMembers(t, i, acc) ==
    IF At(t, i).k # "str" \/ At(t, i + 1) # P(":") THEN JSONDecodeError
    ELSE LET r == ParseValue(t, i + 2) IN
         IF ~r.ok THEN JSONDecodeError
         ELSE IF At(t, r.next) = P(",")
              THEN ParseMembers(t, r.next + 1, (At(t, i).s :> r.val) @@ acc)
         ELSE IF At(t, r.next) = P("}")
              THEN Decoded(JObj((At(t, i).s :> r.val) @@ acc), r.next + 1)
         ELSE JSONDecodeError

\* the whole text must be one value ("Extra data" is a JSONDecodeError)
json_loads(text) ==
    LET r == ParseValue(text, 1) IN
    IF r.ok /\ r.next = Len(text) + 1 THEN r ELSE JSONDecodeError

\* bool(x) of a decoded value
Truthy(v) ==
    CASE v.t = "null" -> FALSE
      [] v.t = "bool" -> v.b
      [] v.t = "num" -> v.n # 0
      [] v.t = "str" -> v.s # ""
      [] v.t = "arr" -> v.items # <<>>
      [] v.t = "obj" -> DOMAIN v.members # {}

----------------------------------------------------------------------------
(* SourceRetriever.__init__ *)

ApiKeys == { None, Some(<<>>), Some(<< "k" >>) }

\* self.model after construction: set for a non-empty key only
init_model(gemini_api_key) == ~gemini_api_key.isNone /\ gemini_api_key.v # <<>>

----------------------------------------------------------------------------
(* SourceRetriever.search_articles_duckduckgo *)

\* link targets of the result anchors of the model's pages
HrefWrapped == << "/", "/", "d", "/", "?", "u", "d", "d", "g", "=",
                  "x", "%", "2", "5", "2", "5" >>
HrefPlain == << "/", "x" >>
HrefMalformed == << "/", "/", "[" >>
HrefEmpty == <<>>

Anchor(h) == [has_href |-> TRUE, href |-> h]
AnchorWithoutHref == [has_href |-> FALSE, href |-> <<>>]

Anchors == { Anchor(HrefWrapped), Anchor(HrefPlain), Anchor(HrefMalformed),
             Anchor(HrefEmpty), AnchorWithoutHref }

\* the a.result__a elements of a page, in document order
Pages == UNION { [1..n -> Anchors] : n \in 0..MaxAnchors }

HttpOutcomes ==
    { [kind |-> "request_raises", status |-> 0, page |-> <<>>],
      [kind |-> "parse_raises", status |-> 200, page |-> <<>>] }
    \cup [kind : {"response"}, status : {200, 503}, page : Pages]

\* find_all with the limit left out
find_all_unlimited(page, limit) == { page }

\* soup.find_all(..., limit=limit).  limit=None or 0 means no limit up to
\* bs4 4.12, where the loop stops on "limit and len(results) >= limit"; from
\* 4.13 it stops on "limit is not None and len(results) >= limit".  Either
\* library can be installed, so limit=0 has both outcomes.
find_all(page, limit) ==
    IF limit > 0 THEN { Take(page, limit) }
    ELSE IF limit = 0 THEN { page, Take(page, 1) }
    ELSE { Take(page, 1) }

\* the loop body over the anchors found, none of which lacks an href
RECURSIVE collect_results(_)
collect_results(found) ==
    IF found = <<>> THEN [results |-> <<>>, printed |-> <<>>]
    ELSE LET original_url == _unwrap_duckduckgo_url(Head(found).href)
             more == collect_results(Tail(found))
         IN  IF original_url.isNone
             THEN [results |-> more.results,
                   printed |-> << "Error unwrapping URL" >> \o more.printed]
             ELSE IF original_url.v # <<>>
             THEN [results |-> << original_url.v >> \o more.results,
                   printed |-> more.printed]
             ELSE more

\* 0 when every anchor has an href, else the position of the first without
RECURSIVE FirstWithoutHref(_)
FirstWithoutHref(found) ==
    IF found = <<>> THEN 0
    ELSE IF ~Head(found).has_href THEN 1
    ELSE LET r == FirstWithoutHref(Tail(found)) IN IF r = 0 THEN 0 ELSE r + 1

\* h: what the request and the parser did; found: what find_all returned
search_articles_duckduckgo(h, found) ==
    IF h.kind # "response"
    THEN [results |-> <<>>, printed |-> << "Error during search" >>]
    ELSE IF FirstWithoutHref(found) # 0                    \* link["href"]: KeyError
    THEN [results |-> <<>>,
          printed |-> collect_results(Take(found, FirstWithoutHref(found) - 1)).printed
                      \o << "Error during search" >>]
    ELSE collect_results(found)

----------------------------------------------------------------------------
(* SourceRetriever.extract_article_info *)

Claim == << "c" >>

NoneStr == None
Contents == { NoneStr, Some(<<>>), Some(<< "A" >>), Some(<< "B" >>) }

\* what Article(url).download() / parse() did: raised, or parsed a text
ExtractOutcomes == { [ok |-> FALSE, content |-> NoneStr] }
                   \cup [ok : {TRUE}, content : Contents]

NoArticle == [isNone |-> TRUE, url |-> <<>>, content |-> NoneStr,
              source |-> <<>>, claim |-> <<>>]

\* title, date and authors are opaque values of the parser and are left out
extract_article_info(url, claim, o) ==
    IF ~o.ok \/ ~urlparse(url).ok
    THEN NoArticle                                \* except: print, return None
    ELSE [isNone |-> FALSE, url |-> url, content |-> o.content,
          source |-> urlparse(url).netloc, claim |-> claim]

\* content as a truth value: None and "" are false
HasContent(article_info) ==
    ~article_info.content.isNone /\ article_info.content.v # <<>>

----------------------------------------------------------------------------
(* SourceRetriever.verify_claim_with_gemini *)

NoResponseGenerated == << W("No"), W("response"), W("generated") >>

FullObject ==
    << P("{"), S("claim"), P(":"), S("X"), P(","),
       S("verdict"), P(":"), S("FALSE"), P(","),
       S("confidence"), P(":"), S("HIGH"), P(","),
       S("explanation"), P(":"), S("..."), P(","),
       S("supporting_evidence"), P(":"), P("["), P("]"), P(","),
       S("contrary_evidence"), P(":"), P("["), S("e"), P("]"), P(","),
       S("limitations"), P(":"), P("["), P("]"), P("}") >>

ModelTexts ==
    { FullObject,
      << P("{"), S("verdict"), P(":"), S("TRUE"), P("}") >>,
      << P("{"), P("}") >>,
      << P("["), S("TRUE"), P("]") >>,
      << P("["), P("]") >>,
      << N("1") >>,
      << N("0") >>,
      << S("TRUE") >>,
      << W("null") >>,
      << W("Sorry"), P(","), W("I"), W("cannot"), W("answer") >>,
      << W("Here"), W("is"), W("the"), W("JSON"), P(":") >> \o FullObject,
      << P("{"), S("verdict"), P(":") >>,
      FullObject \o << W("Done") >>,
      NoResponseGenerated,
      <<>> }

\* generate_content raised (or reading response.text did), the response has
\* no parts, or it has parts with the text
LlmOutcomes ==
    [kind : {"raises"}, parts : {FALSE}, text : {<<>>},
     err : { <<>>, << W("quota") >> }]
    \cup [kind : {"response"}, parts : {FALSE}, text : {<<>>}, err : {<<>>}]
    \cup [kind : {"response"}, parts : {TRUE}, text : ModelTexts, err : {<<>>}]

\* llm before any call; after a call it also holds the context of the prompt
NoCall == [kind |-> "none", parts |-> FALSE, text |-> <<>>, err |-> <<>>,
           context |-> <<>>]

NoneResult == [isNone |-> TRUE, v |-> JNull]

\* isTuple: a (result, raw_response) pair was returned, not a bare None
Returned(isTuple, result, raw, printed) ==
    [isTuple |-> isTuple, result |-> result, raw |-> raw, printed |-> printed]

NoReturn == Returned(FALSE, NoneResult, <<>>, <<>>)

\* json.loads("null") is None
PyValue(v) == IF v.t = "null" THEN NoneResult ELSE [isNone |-> FALSE, v |-> v]

\* the same, reporting a text that does not parse as if nothing was generated
verify_dropping_raw_text(m, r) ==
    IF ~m
    THEN Returned(FALSE, NoneResult, <<>>, << "Gemini API key not configured" >>)
    ELSE IF r.kind = "raises"
    THEN Returned(TRUE, NoneResult, r.err, << "Error during claim verification" >>)
    ELSE IF r.parts /\ json_loads(r.text).ok
    THEN Returned(TRUE, PyValue(json_loads(r.text).val), r.text, <<>>)
    ELSE Returned(TRUE, NoneResult, NoResponseGenerated, <<>>)

verify_claim_with_gemini(m, r) ==
    IF ~m
    THEN Returned(FALSE, NoneResult, <<>>, << "Gemini API key not configured" >>)
    ELSE IF r.kind = "raises"
    THEN Returned(TRUE, NoneResult, r.err, << "Error during claim verification" >>)
    ELSE LET raw_response == IF r.parts THEN r.text ELSE NoResponseGenerated IN
         IF r.parts
         THEN IF json_loads(r.text).ok
              THEN Returned(TRUE, PyValue(json_loads(r.text).val), raw_response, <<>>)
              ELSE Returned(TRUE, NoneResult, raw_response, << "Failed to parse JSON" >>)
         ELSE Returned(TRUE, NoneResult, raw_response, <<>>)

\* bool(verification_result)
ResultTruthy(result) == ~result.isNone /\ Truthy(result.v)

----------------------------------------------------------------------------
(* SourceRetriever.search_and_process_articles *)

Row(article_info) ==
    [url |-> article_info.url, content |-> article_info.content,
     source |-> article_info.source, claim |-> article_info.claim]

\* the same, keeping a row for a URL whose extraction failed
append_row_padding(rows, article_info) == Append(rows, Row(article_info))

\* if article_info: data.append(article_info.__dict__)
append_row(rows, article_info) ==
    IF article_info.isNone THEN rows ELSE Append(rows, Row(article_info))

\* the same, with the separator between contents only
add_context_joining(ctx, v, article_info) ==
    IF ~article_info.isNone /\ v /\ HasContent(article_info)
    THEN IF ctx = <<>> THEN article_info.content.v
         ELSE ctx \o << "\n\n" >> \o article_info.content.v
    ELSE ctx

\* if verify and article_info.content: context += content + "\n\n"
add_context(ctx, v, article_info) ==
    IF ~article_info.isNone /\ v /\ HasContent(article_info)
    THEN ctx \o article_info.content.v \o << "\n\n" >>
    ELSE ctx

\* the same, without the test for a configured model
should_verify_flag_only(v, m) == v

\* if verify and self.model
should_verify(v, m) == v /\ m

\* results_df.attrs after the verification block
attach(out) ==
    IF ResultTruthy(out.result)
    THEN ("verification" :> out.result.v) @@ ("raw_gemini_response" :> out.raw)
    ELSE ("raw_gemini_response" :> out.raw)

NoRequest == [kind |-> "none", status |-> 0, page |-> <<>>]

UnwrapIdle == uw_pc = "idle" /\ uw_in = <<>> /\ uw_out = None

Init ==
    /\ \E gemini_api_key \in ApiKeys : model = init_model(gemini_api_key)
    /\ verify \in BOOLEAN
    /\ num_results \in 0..MaxN
    /\ pc = "start"
    /\ http = NoRequest
    /\ urls = <<>>
    /\ idx = 1
    /\ extracted = <<>>
    /\ data = <<>>
    /\ context = <<>>
    /\ llm = NoCall
    /\ ret = NoReturn
    /\ attrs = <<>>
    /\ console = <<>>
    /\ model_calls = 0
    /\ UnwrapIdle

\* urls = self.search_articles_duckduckgo(claim, num_results)
Search ==
    /\ pc = "start"
    /\ \E h \in HttpOutcomes : \E found \in find_all(h.page, num_results) :
         LET r == search_articles_duckduckgo(h, found) IN
         /\ http' = h
         /\ urls' = r.results
         /\ console' = console \o << "Searching for articles" >> \o r.printed
         /\ pc' = IF r.results = <<>> THEN "after_loop" ELSE "loop"
    /\ UNCHANGED << model, verify, num_results, idx, extracted, data, context,
                    llm, ret, attrs, model_calls, unwrapVars >>

\* one iteration of: for url in urls
Extract ==
    /\ pc = "loop"
    /\ \E o \in ExtractOutcomes :
         LET article_info == extract_article_info(urls[idx], Claim, o) IN
         /\ extracted' = Append(extracted, ~article_info.isNone)
         /\ data' = append_row(data, article_info)
         /\ context' = add_context(context, verify, article_info)
         /\ console' = console \o << "Processing" >> \o
                (IF article_info.isNone THEN << "Error extracting content" >>
                 ELSE <<>>)
    /\ idx' = idx + 1
    /\ pc' = IF idx = Len(urls) THEN "after_loop" ELSE "loop"
    /\ UNCHANGED << model, verify, num_results, http, urls, llm, ret, attrs,
                    model_calls, unwrapVars >>

\* the verification block; unpacking a bare None raises TypeError
Verify ==
    /\ pc = "after_loop"
    /\ should_verify(verify, model)
    /\ \E r \in (IF model THEN LlmOutcomes ELSE {NoCall}) :
         LET out == verify_claim_with_gemini(model, r) IN
         /\ llm' = IF model
                   THEN [kind |-> r.kind, parts |-> r.parts, text |-> r.text,
                         err |-> r.err, context |-> context]
                   ELSE NoCall
         /\ ret' = out
         /\ attrs' = IF out.isTuple THEN attach(out) ELSE attrs
         /\ console' = console \o out.printed \o
                (IF out.isTuple /\ ResultTruthy(out.result)
                 THEN << "Claim Verification Result" >> ELSE <<>>)
         /\ pc' = IF out.isTuple THEN "done" ELSE "raised"
    /\ model_calls' = IF model THEN model_calls + 1 ELSE model_calls
    /\ UNCHANGED << model, verify, num_results, http, urls, idx, extracted,
                    data, context, unwrapVars >>

\* the verification block is not entered: return results_df
SkipVerify ==
    /\ pc = "after_loop"
    /\ ~should_verify(verify, model)
    /\ pc' = "done"
    /\ UNCHANGED << model, verify, num_results, http, urls, idx, extracted,
                    data, context, llm, ret, attrs, console, model_calls,
                    unwrapVars >>

Next == Search \/ Extract \/ Verify \/ SkipVerify

Spec == Init /\ [][Next]_vars

\* the run is sequential code: a step that can be taken is taken
FairSpec == Spec /\ WF_vars(Next)

----------------------------------------------------------------------------
(* A stand-alone call of _unwrap_duckduckgo_url *)

UnwrapAlphabet == { "%", "2", "5", "x", "+" }

Str_uddg_eq == << "?", "u", "d", "d", "g", "=" >>

\* the shapes of wrapped URL around a value v: the parameter alone, after
\* another parameter, absent, in the fragment only, and in a malformed URL
WrappedUrl(shape, v) ==
    CASE shape = 1 -> << "/", "/", "d", "/" >> \o Str_uddg_eq \o v
      [] shape = 2 -> << "/", "/", "d", "/", "?", "q", "=", "x", "&" >>
                      \o Tail(Str_uddg_eq) \o v
      [] shape = 3 -> << "/", "/", "d", "/", "?", "q", "=" >> \o v
      [] shape = 4 -> << "/", "/", "d", "/", "#" >> \o Str_uddg_eq \o v
      [] OTHER -> << "/", "/", "[", "/" >> \o Str_uddg_eq \o v

PipelineIdle ==
    /\ model = FALSE /\ verify = FALSE /\ num_results = 0 /\ pc = "idle"
    /\ http = NoRequest /\ urls = <<>> /\ idx = 1 /\ extracted = <<>>
    /\ data = <<>> /\ context = <<>> /\ llm = NoCall /\ ret = NoReturn
    /\ attrs = <<>> /\ console = <<>> /\ model_calls = 0

InitUnwrap ==
    /\ PipelineIdle
    /\ uw_pc = "call"
    /\ \E shape \in 1..5 : \E n \in 0..MaxLen : \E v \in [1..n -> UnwrapAlphabet] :
         uw_in = WrappedUrl(shape, v)
    /\ uw_out = None

UnwrapCall ==
    /\ uw_pc = "call"
    /\ uw_out' = _unwrap_duckduckgo_url(uw_in)
    /\ uw_pc' = "returned"
    /\ UNCHANGED << uw_in, pipelineVars >>

NextUnwrap == UnwrapCall

SpecUnwrap == InitUnwrap /\ [][NextUnwrap]_vars

----------------------------------------------------------------------------
(* Properties *)

InConsole(line) == \E i \in 1..Len(console) : console[i] = line

Returning == pc \in {"after_loop", "done"}

\* the urls whose extraction succeeded, in the order of the search
RECURSIVE SuccessUrls(_, _)
SuccessUrls(us, ex) ==
    IF us = <<>> \/ ex = <<>> THEN <<>>
    ELSE IF Head(ex) THEN << Head(us) >> \o SuccessUrls(Tail(us), Tail(ex))
    ELSE SuccessUrls(Tail(us), Tail(ex))

NumFailed == Cardinality({ i \in 1..Len(extracted) : ~extracted[i] })

\* C1: once the loop over the m urls has ended, every url has been processed,
\* the table has m-k rows where k extractions failed, and the rows are the
\* successfully extracted urls in the order of the search.
C1_RowsAreSuccessfulUrls ==
    Returning =>
        /\ Len(extracted) = Len(urls)
        /\ Len(data) = Len(urls) - NumFailed
        /\ [i \in 1..Len(data) |-> data[i].url] = SuccessUrls(urls, extracted)

C1_Witness ==
    /\ pc = "done"
    /\ Len(urls) = 2 /\ urls[1] # urls[2]
    /\ extracted = << FALSE, TRUE >>
    /\ Len(data) = 1 /\ data[1].url = urls[2]

SchemaFields == { "claim", "verdict", "confidence", "explanation",
                  "supporting_evidence", "contrary_evidence", "limitations" }

MatchesSchema(text) ==
    /\ json_loads(text).ok
    /\ json_loads(text).val.t = "obj"
    /\ SchemaFields \subseteq DOMAIN json_loads(text).val.members

\* C2: at the end of a run a verification result is attached only if
\* verification was requested and the model's text was a JSON object with all
\* seven schema fields.
C2_VerificationOnlyForSchemaObject ==
    (pc = "done" /\ "verification" \in DOMAIN attrs) =>
        /\ verify
        /\ llm.kind = "response" /\ llm.parts
        /\ MatchesSchema(llm.text)

Malformed == llm.kind = "response" /\ llm.parts /\ ~json_loads(llm.text).ok

\* C3: for a non-empty model text that does not parse as JSON the client
\* returns no result with exactly that text as raw response, and the run ends
\* with no verification attached and that text attached as raw response.
C3_MalformedTextKeptAsRaw ==
    (pc = "done" /\ Malformed /\ llm.text # <<>>) =>
        /\ ret.isTuple /\ ret.result.isNone /\ ret.raw = llm.text
        /\ DOMAIN attrs = {"raw_gemini_response"}
        /\ attrs["raw_gemini_response"] = llm.text

C3_Witness ==
    /\ pc = "done"
    /\ llm.text = << W("Sorry"), P(","), W("I"), W("cannot"), W("answer") >>
    /\ attrs["raw_gemini_response"] = llm.text
    /\ InConsole("Failed to parse JSON")

\* C4: whatever the external steps do, the run reaches the state in which it
\* has returned to its caller, and never the state of an uncaught exception.
C4_RunReturns == <>(pc = "done") /\ [](pc # "raised")

C4_Witness ==
    /\ pc = "done"
    /\ http.kind = "request_raises"
    /\ llm.kind = "raises"
    /\ InConsole("Error during claim verification")

\* C5: with verification requested and no model configured the model is never
\* invoked, the condition is printed, and nothing is attached to the table.
C5_UnconfiguredIsReported ==
    (pc = "done" /\ verify /\ ~model) =>
        /\ model_calls = 0
        /\ InConsole("Gemini API key not configured")
        /\ DOMAIN attrs = {}

\* search_articles_duckduckgo has just returned urls
SearchReturned == pc \in {"loop", "after_loop"} /\ idx = 1

\* the anchors the limit selects, and those of them that yield a URL
Selected == Take(http.page, num_results)
Yields(a) == /\ ~_unwrap_duckduckgo_url(a.href).isNone
             /\ _unwrap_duckduckgo_url(a.href).v # <<>>
Kept == { i \in 1..Len(Selected) : Yields(Selected[i]) }
NthKept(j) == CHOOSE i \in Kept : Cardinality({ k \in Kept : k <= i }) = j

\* at most num_results urls, which are the unwrapped links of the selected
\* anchors in page order without those that yield none; none at all when a
\* selected anchor has no href
SearchContract ==
    (SearchReturned /\ http.kind = "response") =>
        /\ Len(urls) <= num_results
        /\ IF \E i \in 1..Len(Selected) : ~Selected[i].has_href
           THEN urls = <<>>
           ELSE /\ Len(urls) = Cardinality(Kept)
                /\ \A j \in 1..Len(urls) :
                      urls[j] = _unwrap_duckduckgo_url(Selected[NthKept(j)].href).v

\* C6 as stated: the search contract holds for every integer num_results.
C6_AtMostNForAnyInteger == SearchContract

\* C6 amended: the search contract holds for every positive num_results.
C6_AtMostNForPositiveN == num_results > 0 => SearchContract

C6_Witness ==
    /\ SearchReturned /\ http.kind = "response"
    /\ num_results = 1
    /\ http.page = << Anchor(HrefWrapped), Anchor(HrefPlain) >>
    /\ urls = << << "x", "%" >> >>

\* the undecoded values of the uddg parameters of a query string
RECURSIVE RawUddgValues(_)
RawUddgValues(pieces) ==
    IF pieces = <<>> THEN <<>>
    ELSE IF Len(Head(pieces)) > 5 /\ SubSeq(Head(pieces), 1, 5) = Tail(Str_uddg_eq)
         THEN << Drop(Head(pieces), 5) >> \o RawUddgValues(Tail(pieces))
         ELSE RawUddgValues(Tail(pieces))

RawUddg(url) == RawUddgValues(Split(urlparse(url).query, "&"))

\* C7: for a well-formed URL, unwrap returns the value of the uddg parameter
\* percent-decoded once (as a query value, + being a space) when there is
\* one, and the URL itself when there is none.
C7_UnwrapDecodesOnce ==
    (uw_pc = "returned" /\ urlparse(uw_in).ok) =>
        IF RawUddg(uw_in) # <<>>
        THEN uw_out = Some(unquote(Replace(RawUddg(uw_in)[1], "+", " ")))
        ELSE uw_out = Some(uw_in)

\* the contents of the rows that have one, each followed by sep
RECURSIVE EachFollowedBy(_, _)
EachFollowedBy(rows, sep) ==
    IF rows = <<>> THEN <<>>
    ELSE IF ~Head(rows).content.isNone /\ Head(rows).content.v # <<>>
         THEN Head(rows).content.v \o sep \o EachFollowedBy(Tail(rows), sep)
         ELSE EachFollowedBy(Tail(rows), sep)

\* the contents of the rows whose content is not None, sep between them
RECURSIVE JoinedBy(_, _)
JoinedBy(rows, sep) ==
    IF rows = <<>> THEN <<>>
    ELSE IF Head(rows).content.isNone THEN JoinedBy(Tail(rows), sep)
    ELSE IF \A i \in 1..Len(Tail(rows)) : Tail(rows)[i].content.isNone
         THEN Head(rows).content.v
         ELSE Head(rows).content.v \o sep \o JoinedBy(Tail(rows), sep)

NumExtracted == Cardinality({ i \in 1..Len(extracted) : extracted[i] })

\* C8 as stated: the context of the prompt is the non-null contents of the
\* rows in order with a blank line between consecutive ones and nothing after
\* the last; every extracted record is a row.
C8_ContextJoinedBetween ==
    llm.kind # "none" =>
        /\ llm.context = JoinedBy(data, << "\n\n" >>)
        /\ Len(data) = NumExtracted

\* C8 amended: the context of the prompt is the non-empty contents of the rows
\* in order, each followed by a blank line; every extracted record is a row.
C8_ContextEachFollowedBySeparator ==
    llm.kind # "none" =>
        /\ llm.context = EachFollowedBy(data, << "\n\n" >>)
        /\ Len(data) = NumExtracted

C8_Witness ==
    /\ llm.kind # "none"
    /\ Len(data) = 2
    /\ data[1].content.isNone
    /\ data[2].content = Some(<< "A" >>)
    /\ llm.context = << "A", "\n\n" >>

\* C9: an empty response returns no result with the sentinel as raw text, and
\* what is returned for a text that does not parse differs from that.
C9_EmptyDistinctFromMalformed ==
    (pc = "done" /\ llm.kind = "response") =>
        /\ ~llm.parts => (ret.result.isNone /\ ret.raw = NoResponseGenerated)
        /\ Malformed => (ret.raw = llm.text /\ ret.raw # NoResponseGenerated)

\* the request raised, the page could not be parsed, or the status is not 2xx
SearchFailed ==
    \/ http.kind \in {"request_raises", "parse_raises"}
    \/ http.kind = "response" /\ ~(http.status >= 200 /\ http.status <= 299)

\* C10: a failed search is printed and yields no urls.
C10_FailedSearchYieldsNoUrls ==
    (pc # "start" /\ SearchFailed) =>
        /\ urls = <<>>
        /\ InConsole("Error during search")

====
